---- MODULE Spec2Model ----
(***************************************************************************)
(* Model of csv_to_sql.py: one run of the command-line tool that reads a   *)
(* CSV file of client records and writes import.sql.                       *)
(*                                                                         *)
(* Text is modelled as a sequence of symbols.  The single-quote character  *)
(* is always a symbol of its own (Q); every other symbol is a run of       *)
(* characters that contains no single quote.  Python's None is the value   *)
(* None below, which is different from every text.                         *)
(***************************************************************************)
EXTENDS Integers, Sequences, FiniteSets, TLC

\* Largest number of lines (blank or not) after the header that a modelled
\* input file has.
MaxRows == 2

Q == "'"
None == <<"<None>">>
RestKey == "<restkey None>"

(***************************************************************************)
(* Helpers of the Python runtime used by the script.                       *)
(***************************************************************************)
Digits == <<"0", "1", "2", "3", "4", "5", "6", "7", "8", "9">>

IsDigit(c) == \E d \in 1..10 : Digits[d] = c

DigitVal(c) == (CHOOSE d \in 1..10 : Digits[d] = c) - 1

RECURSIVE DigitsToNat(_)
DigitsToNat(s) ==
  IF s = <<>> THEN 0
  ELSE 10 * DigitsToNat(SubSeq(s, 1, Len(s) - 1)) + DigitVal(s[Len(s)])

\* int(text): ok and the integer, or not ok when Python raises ValueError.
ParseInt(s) ==
  LET body == IF s # <<>> /\ s[1] = "-" THEN Tail(s) ELSE s
  IN  IF body = <<>> \/ \E i \in 1..Len(body) : ~IsDigit(body[i])
      THEN [ok |-> FALSE, val |-> 0]
      ELSE [ok |-> TRUE,
            val |-> IF s[1] = "-" THEN 0 - DigitsToNat(body) ELSE DigitsToNat(body)]

RECURSIVE NatToStr(_)
NatToStr(n) ==
  IF n < 10 THEN <<Digits[n + 1]>>
  ELSE NatToStr(n \div 10) \o <<Digits[(n % 10) + 1]>>

\* str(int) as done by an f-string field.
IntToStr(n) == IF n < 0 THEN <<"-">> \o NatToStr(0 - n) ELSE NatToStr(n)

\* str(value) as done by an f-string field for a text or None.
Format(v) == IF v = None THEN <<"None">> ELSE v

\* text.replace(old, new) for a one-symbol old.
RECURSIVE Replace(_, _, _)
Replace(s, old, new) ==
  IF s = <<>> THEN <<>>
  ELSE (IF Head(s) = old THEN new ELSE <<Head(s)>>) \o Replace(Tail(s), old, new)

\* Variant of Join: only the first element is kept.
Join_FirstOnly(sep, list) == IF list = <<>> THEN <<>> ELSE list[1]

\* Variant of Join: the elements are joined last to first.
RECURSIVE Join_Reverse(_, _)
Join_Reverse(sep, list) ==
  IF list = <<>> THEN <<>>
  ELSE IF Len(list) = 1 THEN list[1]
  ELSE Join_Reverse(sep, Tail(list)) \o sep \o list[1]

\* sep.join(list)
RECURSIVE Join(_, _)
Join(sep, list) ==
  IF list = <<>> THEN <<>>
  ELSE IF Len(list) = 1 THEN list[1]
  ELSE list[1] \o sep \o Join(sep, Tail(list))

\* The dict csv.DictReader builds for one non-blank line: fieldnames zipped
\* with the cells (the last of duplicate names wins), None for the fields a
\* short line leaves out, the surplus cells of a long line under RestKey.
DictRow(names, cells) ==
  LET lf == Len(names)
      lr == Len(cells)
      keys == {names[i] : i \in 1..lf} \cup (IF lf < lr THEN {RestKey} ELSE {})
      LastIdx(k) == CHOOSE i \in 1..lf :
                      names[i] = k /\ \A j \in (i + 1)..lf : names[j] # k
  IN  [k \in keys |->
         IF k = RestKey THEN SubSeq(cells, lf + 1, lr)
         ELSE IF LastIdx(k) <= lr THEN cells[LastIdx(k)] ELSE None]

\* row.get(key, default)
Get(row, key, default) == IF key \in DOMAIN row THEN row[key] ELSE default

(***************************************************************************)
(* csv_to_sql: the parts of the loop body.                                 *)
(***************************************************************************)
required_fields == <<"name", "source", "stage">>

valid_stages == {<<"new_lead">>, <<"initial_contact">>, <<"nurturing">>,
                 <<"high_intent">>, <<"joined_group">>, <<"opened_account">>,
                 <<"deposited">>}

valid_temps == {<<"hot">>, <<"warm">>, <<"neutral">>, <<"cold">>}

HasRequired(names) ==
  \A i \in 1..Len(required_fields) :
     \E j \in 1..Len(names) : names[j] = required_fields[i]

\* Variant of escape: the value is returned without doubling its quotes.
escape_NoDoubling(value) == IF value = None THEN <<>> ELSE value

escape(value) ==
  IF value = None \/ value = <<>> THEN <<>>
  ELSE Replace(value, Q, <<Q, Q>>)

\* Variant of StageOf: the value is not checked.
StageOf_Unchecked(stage) == Format(stage)

\* Lines 63-67: the stage that goes into the statement.
StageOf(stage) == IF stage \notin valid_stages THEN <<"new_lead">> ELSE stage

\* Variant of TempLevelOf: the value is not checked.
TempLevelOf_Unchecked(temp_level) == Format(temp_level)

\* Lines 70-73: the temperature_level that goes into the statement.
TempLevelOf(temp_level) ==
  IF temp_level \notin valid_temps THEN <<"neutral">> ELSE temp_level

SqlHead ==
  "INSERT INTO clients (\n  user_id, name, phone, wechat, email, source, stage,\n  temperature_score, temperature_level,\n  interests, personality, unique_qualities, behavior_patterns, investment_profile\n) VALUES (\n  "
Sep == ", "
SepLine == ",\n  "
SqlTail == "\n);"

\* The f-string of lines 75-83.  v is the tuple of the already formatted
\* fields in column order: user_id, name, phone, wechat, email, source,
\* stage, temp_score, temp_level, interests, personality, unique_qualities,
\* behavior_patterns, investment_profile.
FormatSql(v) ==
  <<SqlHead>> \o v[1] \o <<Sep, Q>> \o v[2] \o <<Q, Sep, Q>> \o v[3]
    \o <<Q, Sep, Q>> \o v[4] \o <<Q, Sep, Q>> \o v[5] \o <<Q, Sep, Q>> \o v[6]
    \o <<Q, Sep, Q>> \o v[7] \o <<Q, SepLine>>
    \o v[8] \o <<Sep, Q>> \o v[9] \o <<Q, SepLine>>
    \o <<Q>> \o v[10] \o <<Q, Sep, Q>> \o v[11] \o <<Q, Sep, Q>> \o v[12]
    \o <<Q, Sep, Q>> \o v[13] \o <<Q, Sep, Q>> \o v[14] \o <<Q, SqlTail>>

\* Lines 48-60: the fields taken from the row, in column order after user_id.
RowFields(row) ==
  << escape(row["name"]),
     escape(Get(row, "phone", <<>>)),
     escape(Get(row, "wechat", <<>>)),
     escape(Get(row, "email", <<>>)),
     escape(row["source"]),
     row["stage"],
     Get(row, "temperature_score", <<"50">>),
     Get(row, "temperature_level", <<"neutral">>),
     escape(Get(row, "interests", <<>>)),
     escape(Get(row, "personality", <<>>)),
     escape(Get(row, "unique_qualities", <<>>)),
     escape(Get(row, "behavior_patterns", <<>>)),
     escape(Get(row, "investment_profile", <<>>)) >>

\* Variant of RowSql: temperature_score is escaped like a text field.
RowSql_ScoreEscaped(uid, row) ==
  LET f == RowFields(row)
  IN  FormatSql(<<IntToStr(uid), f[1], f[2], f[3], f[4], f[5],
                  StageOf(f[6]), escape(f[7]), TempLevelOf(f[8]),
                  f[9], f[10], f[11], f[12], f[13]>>)

\* Lines 62-83: the statement of one row.
RowSql(uid, row) ==
  LET f == RowFields(row)
  IN  FormatSql(<<IntToStr(uid), f[1], f[2], f[3], f[4], f[5],
                  StageOf(f[6]), Format(f[7]), TempLevelOf(f[8]),
                  f[9], f[10], f[11], f[12], f[13]>>)

Msg(kind, row, value) == [kind |-> kind, row |-> row, value |-> value]

\* Lines 65-66 and 71-72: the warnings printed for one row.
RowWarnings(n, row) ==
  LET f == RowFields(row)
  IN  (IF f[6] \notin valid_stages
       THEN <<Msg("warn_stage", n, Format(f[6]))>> ELSE <<>>)
      \o
      (IF f[8] \notin valid_temps
       THEN <<Msg("warn_temperature_level", n, Format(f[8]))>> ELSE <<>>)

(***************************************************************************)
(* Inputs.                                                                 *)
(***************************************************************************)
\* Command lines: sys.argv without and with the optional arguments.
Argvs == { <<"csv_to_sql.py">>,
           <<"csv_to_sql.py", "clients.csv">>,
           <<"csv_to_sql.py", "clients.csv", <<"3">> >>,
           <<"csv_to_sql.py", "clients.csv", <<"x">> >> }

\* What the path names: nothing, something open() fails on (a directory, an
\* unreadable file), or a readable file.
FileKinds == {"missing", "unreadable", "file"}

\* First line of the file as the csv reader returns it; None for a file with
\* no line at all, <<>> for a blank first line.
Headers == { None,
             <<>>,
             <<"name", "source">>,
             <<"name", "source", "stage">>,
             <<"name", "source", "stage", "temperature_score", "temperature_level">>,
             <<"interests", "name", "source", "stage", "phone">> }

\* The values a cell of column col takes in a file with header h.  Files
\* with optional columns vary the stage over two values only.
CellValues(h, col) ==
  CASE col = "name" -> { <<"O", Q, "Brien">> }
    [] col = "source" -> { <<"referral">> }
    [] col = "stage" -> IF h = required_fields
                        THEN { <<"new_lead">>, <<"deposited">>, <<"b", Q>> }
                        ELSE { <<"deposited">>, <<"b", Q>> }
    [] col = "temperature_score" -> { <<"75">>, <<"x", Q>> }
    [] col = "temperature_level" -> { <<"hot">>, <<"COLD">> }
    [] col = "phone" -> { <<"1", Q>> }
    [] col = "interests" -> { <<Q>> }
    [] OTHER -> { <<"extra">> }

\* The lines of n cells a file with header h can hold; a cell beyond the
\* header is surplus.
RECURSIVE LinesOfLen(_, _)
LinesOfLen(h, n) ==
  IF n = 0 THEN { <<>> }
  ELSE { Append(p, c) : p \in LinesOfLen(h, n - 1),
                        c \in (IF n <= Len(h) THEN CellValues(h, h[n])
                               ELSE { <<"extra">> }) }

\* The lines a file with header h can hold: blank, short or full, and for
\* the header of just the required fields also one cell too long.
LinesFor(h) ==
  UNION { LinesOfLen(h, n) : n \in 0..Len(h) }
    \cup (IF h = required_fields THEN LinesOfLen(h, Len(h) + 1) ELSE {})

\* Previous content of import.sql: no file, or an older script.
NoFile == [exists |-> FALSE]
OldFile == [exists |-> TRUE, source |-> "old.csv", user_id |-> 2, count |-> 7,
            body |-> <<"-- old">>, complete |-> TRUE]

VARIABLES
  argv,            \* sys.argv
  kind,            \* what the input path names (FileKinds)
  header,          \* first line of the input file, None if it has no line
  lines,           \* lines after the header the reader has consumed so far
  pc,              \* position of the program
  status,          \* exit status, -1 while running
  user_id,         \* main's user_id
  count,           \* csv_to_sql's count
  sql_statements,  \* csv_to_sql's sql_statements
  sql_output,      \* main's sql_output
  ret_count,       \* main's count
  stdout,          \* messages printed
  outFile,         \* import.sql
  outFile0         \* import.sql as it was when the program started

vars == <<argv, kind, header, lines, pc, status, user_id, count,
          sql_statements, sql_output, ret_count, stdout, outFile, outFile0>>

Init ==
  /\ argv \in Argvs
  /\ kind \in FileKinds
  /\ header \in Headers
  /\ lines = <<>>
  /\ pc = "main"
  /\ status = -1
  /\ user_id = 0
  /\ count = 0
  /\ sql_statements = <<>>
  /\ sql_output = <<>>
  /\ ret_count = 0
  /\ stdout = <<>>
  /\ outFile \in {NoFile, OldFile}
  /\ outFile0 = outFile

Exit(code, msgs) ==
  /\ pc' = "exit"
  /\ status' = code
  /\ stdout' = stdout \o msgs

\* main, lines 97-113: no file argument.
Usage ==
  /\ pc = "main"
  /\ Len(argv) < 2
  /\ Exit(1, <<Msg("banner", 0, <<>>), Msg("usage", 0, <<>>)>>)
  /\ UNCHANGED <<argv, kind, header, lines, user_id, count, sql_statements,
                 sql_output, ret_count, outFile, outFile0>>

\* main, line 116: int() raises ValueError, the traceback ends the process.
BadUserId ==
  /\ pc = "main"
  /\ Len(argv) > 2
  /\ ~ParseInt(argv[3]).ok
  /\ Exit(1, <<Msg("banner", 0, <<>>), Msg("traceback", 0, argv[3])>>)
  /\ UNCHANGED <<argv, kind, header, lines, user_id, count, sql_statements,
                 sql_output, ret_count, outFile, outFile0>>

\* main, lines 97-124: arguments accepted, csv_to_sql is called.
Start ==
  /\ pc = "main"
  /\ Len(argv) >= 2
  /\ Len(argv) > 2 => ParseInt(argv[3]).ok
  /\ user_id' = IF Len(argv) > 2 THEN ParseInt(argv[3]).val ELSE 2
  /\ stdout' = stdout \o <<Msg("banner", 0, <<>>), Msg("converting", 0, <<>>)>>
  /\ pc' = "exists"
  /\ UNCHANGED <<argv, kind, header, lines, status, count, sql_statements,
                 sql_output, ret_count, outFile, outFile0>>

\* csv_to_sql, lines 20-22.
MissingFile ==
  /\ pc = "exists"
  /\ kind = "missing"
  /\ Exit(1, <<Msg("err_missing", 0, <<argv[2]>>)>>)
  /\ UNCHANGED <<argv, kind, header, lines, user_id, count, sql_statements,
                 sql_output, ret_count, outFile, outFile0>>

\* csv_to_sql, lines 20-25.
FileExists ==
  /\ pc = "exists"
  /\ kind # "missing"
  /\ sql_statements' = <<>>
  /\ count' = 0
  /\ pc' = "open"
  /\ UNCHANGED <<argv, kind, header, lines, status, user_id, sql_output,
                 ret_count, stdout, outFile, outFile0>>

\* Lines 28 and 89-92: open() raises.
OpenRaises ==
  /\ pc = "open"
  /\ kind = "unreadable"
  /\ Exit(1, <<Msg("err_exception", 0, <<"open">>)>>)
  /\ UNCHANGED <<argv, kind, header, lines, user_id, count, sql_statements,
                 sql_output, ret_count, outFile, outFile0>>

\* Lines 33 and 89-92: fieldnames is None, `field in None` raises TypeError.
NoHeaderRaises ==
  /\ pc = "open"
  /\ kind = "file"
  /\ header = None
  /\ Exit(1, <<Msg("err_exception", 0, <<"argument of type 'NoneType' is not iterable">>)>>)
  /\ UNCHANGED <<argv, kind, header, lines, user_id, count, sql_statements,
                 sql_output, ret_count, outFile, outFile0>>

\* Variant of SchemaMismatch: the diagnostic is printed, the status is 0.
SchemaMismatch_ExitZero ==
  /\ pc = "open"
  /\ kind = "file"
  /\ header # None
  /\ ~HasRequired(header)
  /\ Exit(0, <<Msg("err_schema", 0, <<>>),
               Msg("required", 0, required_fields),
               Msg("present", 0, header)>>)
  /\ UNCHANGED <<argv, kind, header, lines, user_id, count, sql_statements,
                 sql_output, ret_count, outFile, outFile0>>

\* Lines 33-37: a header without all required fields.
SchemaMismatch ==
  /\ pc = "open"
  /\ kind = "file"
  /\ header # None
  /\ ~HasRequired(header)
  /\ Exit(1, <<Msg("err_schema", 0, <<>>),
               Msg("required", 0, required_fields),
               Msg("present", 0, header)>>)
  /\ UNCHANGED <<argv, kind, header, lines, user_id, count, sql_statements,
                 sql_output, ret_count, outFile, outFile0>>

\* Lines 28-37: the header is accepted.
HeaderOk ==
  /\ pc = "open"
  /\ kind = "file"
  /\ header # None
  /\ HasRequired(header)
  /\ pc' = "loop"
  /\ UNCHANGED <<argv, kind, header, lines, status, user_id, count,
                 sql_statements, sql_output, ret_count, stdout, outFile, outFile0>>

\* Line 39: the reader meets a blank line and goes on to the next one.
SkipBlank ==
  /\ pc = "loop"
  /\ Len(lines) < MaxRows
  /\ lines' = Append(lines, <<>>)
  /\ UNCHANGED <<argv, kind, header, pc, status, user_id, count,
                 sql_statements, sql_output, ret_count, stdout, outFile, outFile0>>

\* Lines 39-85: one iteration of the loop on a non-blank line.
ProcessRow ==
  /\ pc = "loop"
  /\ Len(lines) < MaxRows
  /\ \E cells \in LinesFor(header) :
       /\ cells # <<>>
       /\ lines' = Append(lines, cells)
       /\ count' = count + 1
       /\ stdout' = stdout \o RowWarnings(count + 1, DictRow(header, cells))
       /\ sql_statements' = Append(sql_statements,
                                   RowSql(user_id, DictRow(header, cells)))
  /\ UNCHANGED <<argv, kind, header, pc, status, user_id, sql_output,
                 ret_count, outFile, outFile0>>

\* Variant of ReaderRaises: the statements gathered so far are saved to
\* import.sql before the process exits.
ReaderRaises_SavesPartial ==
  /\ pc = "loop"
  /\ Len(lines) < MaxRows
  /\ Exit(1, <<Msg("err_exception", 0, <<"read">>)>>)
  /\ outFile' = [exists |-> TRUE, source |-> argv[2], user_id |-> user_id,
                 count |-> count, body |-> Join(<<"\n", "\n">>, sql_statements),
                 complete |-> TRUE]
  /\ UNCHANGED <<argv, kind, header, lines, user_id, count, sql_statements,
                 sql_output, ret_count, outFile0>>

\* Lines 39 and 89-92: reading the next line raises (undecodable bytes, a
\* malformed line); the exception is reported and the process exits.
ReaderRaises ==
  /\ pc = "loop"
  /\ Len(lines) < MaxRows
  /\ Exit(1, <<Msg("err_exception", 0, <<"read">>)>>)
  /\ UNCHANGED <<argv, kind, header, lines, user_id, count, sql_statements,
                 sql_output, ret_count, outFile, outFile0>>

\* Lines 39, 87 and 124: end of file, csv_to_sql returns to main.
Return ==
  /\ pc = "loop"
  /\ sql_output' = Join(<<"\n", "\n">>, sql_statements)
  /\ ret_count' = count
  /\ pc' = "write"
  /\ UNCHANGED <<argv, kind, header, lines, status, user_id, count,
                 sql_statements, stdout, outFile, outFile0>>

\* Line 128: import.sql is opened for writing, which empties it.
OpenOutput ==
  /\ pc = "write"
  /\ outFile' = [exists |-> TRUE, source |-> "", user_id |-> 0, count |-> 0,
                 body |-> <<>>, complete |-> FALSE]
  /\ pc' = "writing"
  /\ UNCHANGED <<argv, kind, header, lines, status, user_id, count,
                 sql_statements, sql_output, ret_count, stdout, outFile0>>

\* Lines 129-134: the comment header and the statements are written and the
\* file is closed.
WriteOutput ==
  /\ pc = "writing"
  /\ outFile' = [exists |-> TRUE, source |-> argv[2], user_id |-> user_id,
                 count |-> ret_count, body |-> sql_output, complete |-> TRUE]
  /\ pc' = "written"
  /\ UNCHANGED <<argv, kind, header, lines, status, user_id, count,
                 sql_statements, sql_output, ret_count, stdout, outFile0>>

\* Lines 136-154 and the end of the script: summary, exit status 0.
Finish ==
  /\ pc = "written"
  /\ Exit(0, <<Msg("done", ret_count, <<"import.sql">>)>>)
  /\ UNCHANGED <<argv, kind, header, lines, user_id, count, sql_statements,
                 sql_output, ret_count, outFile, outFile0>>

Next ==
  \/ Usage
  \/ BadUserId
  \/ Start
  \/ MissingFile
  \/ FileExists
  \/ OpenRaises
  \/ NoHeaderRaises
  \/ SchemaMismatch
  \/ HeaderOk
  \/ SkipBlank
  \/ ProcessRow
  \/ ReaderRaises
  \/ Return
  \/ OpenOutput
  \/ WriteOutput
  \/ Finish

Spec == Init /\ [][Next]_vars

(***************************************************************************)
(* Reading a statement back as SQL text.                                   *)
(***************************************************************************)
Failed == [ok |-> FALSE, vals |-> <<>>, next |-> 0]

\* The body of a string literal of t from position j on, read to the right
\* (d = 1) or to the left (d = -1): a doubled quote is one quote of the
\* value, a single quote ends the literal.  next is the position after the
\* literal in the direction of reading.
RECURSIVE ScanBody(_, _, _, _)
ScanBody(t, j, d, acc) ==
  IF j < 1 \/ j > Len(t) THEN Failed
  ELSE IF t[j] = Q
       THEN IF j + d >= 1 /\ j + d <= Len(t) /\ t[j + d] = Q
            THEN ScanBody(t, j + 2 * d, d, IF d = 1 THEN Append(acc, Q)
                                                    ELSE <<Q>> \o acc)
            ELSE [ok |-> TRUE, vals |-> acc, next |-> j + d]
       ELSE ScanBody(t, j + d, d, IF d = 1 THEN Append(acc, t[j])
                                            ELSE <<t[j]>> \o acc)

\* The string literal of t whose first quote in the direction d is at
\* position i.
ScanLiteral(t, i, d) ==
  IF i < 1 \/ i > Len(t) \/ t[i] # Q THEN Failed
  ELSE ScanBody(t, i + d, d, <<>>)

\* Len(seps) + 1 string literals of t from position i on in direction d,
\* the k-th followed by the symbol seps[k].
RECURSIVE ScanLits(_, _, _, _, _)
ScanLits(t, i, d, seps, acc) ==
  LET lit == ScanLiteral(t, i, d)
      got == Append(acc, lit.vals)
  IN  IF ~lit.ok THEN Failed
      ELSE IF Len(got) > Len(seps)
           THEN [ok |-> TRUE, vals |-> got, next |-> lit.next]
           ELSE IF lit.next < 1 \/ lit.next > Len(t)
                     \/ t[lit.next] # seps[Len(got)]
                THEN Failed
                ELSE ScanLits(t, lit.next + d, d, seps, got)

\* The first position from k on where t holds the symbol sym, 0 if none.
RECURSIVE Find(_, _, _)
Find(t, sym, k) ==
  IF k > Len(t) THEN 0
  ELSE IF t[k] = sym THEN k ELSE Find(t, sym, k + 1)

\* A statement read back.  From the front: the head, the user_id up to the
\* first separator, six string literals (name, phone, wechat, email, source,
\* stage) and the line separator.  From the back: the tail, six string
\* literals (investment_profile back to temperature_level) and the
\* separator before them.  What lies between is the temperature_score
\* position.
ParseSql(t) ==
  LET n == Len(t)
      k1 == Find(t, Sep, 2)
      front == ScanLits(t, k1 + 1, 1, <<Sep, Sep, Sep, Sep, Sep>>, <<>>)
      back == ScanLits(t, n - 1, -1, <<Sep, Sep, Sep, Sep, SepLine>>, <<>>)
      okAll == /\ n >= 2
               /\ t[1] = SqlHead
               /\ t[n] = SqlTail
               /\ k1 > 2
               /\ front.ok
               /\ front.next <= n
               /\ t[front.next] = SepLine
               /\ back.ok
               /\ back.next >= 1
               /\ t[back.next] = Sep
               /\ front.next + 1 <= back.next
  IN  IF ~okAll THEN [ok |-> FALSE]
      ELSE [ok |-> TRUE,
            user_id |-> SubSeq(t, 2, k1 - 1),
            name |-> front.vals[1],
            phone |-> front.vals[2],
            wechat |-> front.vals[3],
            email |-> front.vals[4],
            source |-> front.vals[5],
            stage |-> front.vals[6],
            temperature_score |-> SubSeq(t, front.next + 1, back.next - 1),
            temperature_level |-> back.vals[6],
            interests |-> back.vals[5],
            personality |-> back.vals[4],
            unique_qualities |-> back.vals[3],
            behavior_patterns |-> back.vals[2],
            investment_profile |-> back.vals[1]]

CountOf(t, sym) == Cardinality({ i \in 1..Len(t) : t[i] = sym })

(***************************************************************************)
(* Vocabulary of the properties.                                           *)
(***************************************************************************)
TextFields == {"name", "phone", "wechat", "email", "source", "interests",
               "personality", "unique_qualities", "behavior_patterns",
               "investment_profile"}

OptionalTextFields == TextFields \ {"name", "source"}

NonBlank(l) == l # <<>>

\* The non-blank lines read so far: the records the loop body has been given.
Records == SelectSeq(lines, NonBlank)

\* The record of the i-th non-blank line.
Rec(i) == DictRow(header, Records[i])

\* The place among all lines after the header of the i-th non-blank line.
LineNo(i) ==
  CHOOSE k \in 1..Len(lines) :
    /\ lines[k] # <<>>
    /\ Cardinality({ j \in 1..k : lines[j] # <<>> }) = i

Missing(rec, key) == key \notin DOMAIN rec \/ rec[key] = None

Supplied(rec, key) == ~Missing(rec, key)

HasQuote(v) == \E i \in 1..Len(v) : v[i] = Q

\* csv_to_sql has returned to main.
Returned == pc \in {"write", "writing", "written"} \/ (pc = "exit" /\ status = 0)

\* str(value) as a message shows it.
Printed(v) == IF v = None THEN <<"None">> ELSE v

\* Statement i exists and belongs to record i.
Emitted(i) == i \in 1..Len(sql_statements) /\ i \in 1..Len(Records)

Warnings(k, n) ==
  { j \in 1..Len(stdout) : stdout[j].kind = k /\ stdout[j].row = n }

\* What the statement of record rec has to hold in the position of text
\* field f: the value itself once read back, nothing for a missing field.
TextExpected(rec, f) == IF Missing(rec, f) THEN <<>> ELSE rec[f]

BuiltFrom(t, rec) ==
  LET p == ParseSql(t)
  IN  /\ p.ok
      /\ p.user_id = IntToStr(user_id)
      /\ \A f \in TextFields : p[f] = TextExpected(rec, f)
      /\ rec["stage"] \in valid_stages => p.stage = rec["stage"]
      /\ Supplied(rec, "temperature_score") =>
           p.temperature_score = rec["temperature_score"]
      /\ (Supplied(rec, "temperature_level")
            /\ rec["temperature_level"] \in valid_temps) =>
           p.temperature_level = rec["temperature_level"]

\* The position in text out of the i-th statement head.
HeadPos(out, i) ==
  CHOOSE k \in 1..Len(out) :
    /\ out[k] = SqlHead
    /\ Cardinality({ j \in 1..k : out[j] = SqlHead }) = i

\* Text out is the statements of list in order, two newlines (one blank
\* line) between the end of one and the head of the next.
InOrder(out, list) ==
  LET n == Len(list)
  IN  /\ CountOf(out, SqlHead) = n
      /\ n = 0 => out = <<>>
      /\ n > 0 => HeadPos(out, 1) = 1
      /\ \A i \in 1..n :
           LET first == HeadPos(out, i)
               last == IF i = n THEN Len(out) ELSE HeadPos(out, i + 1) - 3
           IN  /\ SubSeq(out, first, last) = list[i]
               /\ i < n => /\ out[last] = SqlTail
                           /\ out[last + 1] = "\n"
                           /\ out[last + 2] = "\n"

\* C2: the i-th INSERT statement is built from the i-th record of the input,
\* and the output text is the statements in that order, consecutive
\* statements separated by exactly one blank line.
C2_OrderPreserved ==
  /\ pc = "loop" =>
       \A i \in 1..Len(sql_statements) :
         /\ i <= Len(Records)
         /\ BuiltFrom(sql_statements[i], Rec(i))
  /\ pc = "write" => InOrder(sql_output, sql_statements)
  /\ pc = "written" => outFile.body = sql_output

\* Two records with different statements have been converted and written.
C2_Witness ==
  /\ pc = "written"
  /\ Len(sql_statements) = 2
  /\ Len(Records) = 2
  /\ sql_statements[1] # sql_statements[2]

(***************************************************************************)
(* C3                                                                      *)
(***************************************************************************)
\* C3 as stated: whichever field of a row holds a value with a single
\* quote, the text generated for that field has every single quote doubled,
\* and the statement reads back as a sequence of literals.
C3_EveryFieldEscaped ==
  pc = "loop" => \A i \in 1..Len(sql_statements) :
    /\ i <= Len(Records)
    /\ LET p == ParseSql(sql_statements[i])
           rec == Rec(i)
       IN  /\ p.ok
           /\ \A f \in TextFields : p[f] = TextExpected(rec, f)
           /\ ~HasQuote(p.stage)
           /\ ~HasQuote(p.temperature_level)
           /\ (Supplied(rec, "temperature_score")
                 /\ HasQuote(rec["temperature_score"])) =>
                p.temperature_score =
                  Replace(rec["temperature_score"], Q, <<Q, Q>>)

\* C3 amended: for each of the escaped text fields (name, phone, wechat,
\* email, source, interests, personality, unique_qualities,
\* behavior_patterns, investment_profile) a value with single quotes is
\* generated with every single quote doubled, so that its literal ends
\* where the value ends and reads back as the value; a stage or
\* temperature_level value with a single quote is replaced by the default
\* and never reaches the statement.  temperature_score is not escaped.
C3_TextFieldsEscaped ==
  pc = "loop" => \A i \in 1..Len(sql_statements) :
    /\ i <= Len(Records)
    /\ LET p == ParseSql(sql_statements[i])
           rec == Rec(i)
       IN  /\ p.ok
           /\ \A f \in TextFields : p[f] = TextExpected(rec, f)
           /\ ~HasQuote(p.stage)
           /\ ~HasQuote(p.temperature_level)

\* A statement has been generated for a record whose name and phone hold a
\* single quote.
C3_Witness ==
  \E i \in 1..Len(sql_statements) :
    /\ i <= Len(Records)
    /\ HasQuote(Rec(i)["name"])
    /\ Supplied(Rec(i), "phone")
    /\ HasQuote(Rec(i)["phone"])

(***************************************************************************)
(* C4                                                                      *)
(***************************************************************************)
\* The stage part of a claim about record i whose warning is expected under
\* row number n.
StageHandled(i, n) ==
  LET p == ParseSql(sql_statements[i])
      st == Rec(i)["stage"]
      ws == Warnings("warn_stage", n)
  IN  /\ p.ok
      /\ p.stage \in valid_stages
      /\ st \in valid_stages => p.stage = st /\ ws = {}
      /\ st \notin valid_stages =>
           /\ p.stage = <<"new_lead">>
           /\ Cardinality(ws) = 1
           /\ \A j \in ws : stdout[j].value = Printed(st)

StageWarningsCounted ==
  CountOf([j \in 1..Len(stdout) |-> stdout[j].kind], "warn_stage")
    = Cardinality({ i \in 1..Len(Records) : Rec(i)["stage"] \notin valid_stages })

LevelHandled(i, n) ==
  LET p == ParseSql(sql_statements[i])
      rec == Rec(i)
      ws == Warnings("warn_temperature_level", n)
  IN  /\ p.ok
      /\ p.temperature_level \in valid_temps
      /\ "temperature_level" \notin DOMAIN rec =>
           p.temperature_level = <<"neutral">> /\ ws = {}
      /\ "temperature_level" \in DOMAIN rec =>
           LET lv == rec["temperature_level"]
           IN  /\ lv \in valid_temps => p.temperature_level = lv /\ ws = {}
               /\ lv \notin valid_temps =>
                    /\ p.temperature_level = <<"neutral">>
                    /\ Cardinality(ws) = 1
                    /\ \A j \in ws : stdout[j].value = Printed(lv)

ScenarioSql ==
  <<SqlHead, "3", Sep, Q, "O", Q, Q, "Brien", Q, Sep, Q, Q, Sep, Q, Q, Sep,
    Q, Q, Sep, Q, "referral", Q, Sep, Q, "new_lead", Q, SepLine,
    "50", Sep, Q, "neutral", Q, SepLine,
    Q, Q, Sep, Q, Q, Sep, Q, Q, Sep, Q, Q, Sep, Q, Q, SqlTail>>

\* C6: where an optional field is missing from a row, the statement holds ''
\* in its position, except 50 (unquoted) for a missing temperature_score and
\* 'neutral' for a missing temperature_level; header name,source,stage with
\* the row O'Brien,referral,new_lead and owner id 3 gives exactly the one
\* statement ScenarioSql.
C6_MissingFieldDefaults ==
  pc = "loop" =>
    /\ \A i \in 1..Len(sql_statements) :
         /\ i <= Len(Records)
         /\ LET p == ParseSql(sql_statements[i])
                rec == Rec(i)
            IN  /\ p.ok
                /\ \A f \in OptionalTextFields :
                     Missing(rec, f) => p[f] = <<>>
                /\ Missing(rec, "temperature_score") =>
                     p.temperature_score = <<"50">>
                /\ Missing(rec, "temperature_level") =>
                     p.temperature_level = <<"neutral">>
    /\ (/\ header = <<"name", "source", "stage">>
        /\ user_id = 3
        /\ lines = << << <<"O", Q, "Brien">>, <<"referral">>, <<"new_lead">> >> >>)
         => sql_statements = <<ScenarioSql>>

(***************************************************************************)
(* C7                                                                      *)
(***************************************************************************)
\* C7: on every fatal path import.sql is as it was when the program started
\* (not created, not modified), whatever statements had been gathered; the
\* file changes only after csv_to_sql has returned, and once written it
\* holds the whole output.
C7_NoOutputOnFailure ==
  /\ (pc = "exit" /\ status # 0) => outFile = outFile0
  /\ pc \in {"main", "exists", "open", "loop", "write"} => outFile = outFile0
  /\ (pc = "written" \/ (pc = "exit" /\ status = 0)) =>
       /\ outFile.exists
       /\ outFile.complete
       /\ outFile.count = Len(Records)
       /\ outFile.body = sql_output
       /\ CountOf(outFile.body, SqlHead) = Len(sql_statements)

\* The program has exited with an error after a row had been processed.
C7_Witness ==
  /\ pc = "exit"
  /\ status = 1
  /\ Len(sql_statements) >= 1
  /\ outFile0.exists

(***************************************************************************)
(* C8                                                                      *)
(***************************************************************************)
LacksRequired(h) == h = None \/ ~HasRequired(h)

\* The arguments are accepted and the path names a readable file, so that
\* the program gets to the header.
ReachesHeader ==
  /\ Len(argv) >= 2
  /\ Len(argv) > 2 => ParseInt(argv[3]).ok
  /\ kind = "file"

HasMessage(k) == \E j \in 1..Len(stdout) : stdout[j].kind = k

\* C8: when the first line of the file does not hold name, source and stage
\* (a file without any line included) the program exits with status 1
\* through the schema-mismatch path: it prints the schema diagnostic with
\* the required and the present fields and has processed no row.
C8_SchemaMismatchPath ==
  (pc = "exit" /\ ReachesHeader /\ LacksRequired(header)) =>
    /\ status = 1
    /\ HasMessage("err_schema")
    /\ HasMessage("required")
    /\ HasMessage("present")
    /\ ~HasMessage("err_exception")
    /\ lines = <<>>
    /\ sql_statements = <<>>

(***************************************************************************)
(* C9                                                                      *)
(***************************************************************************)
C9_Statuses ==
  /\ status \in {-1, 0, 1}
  /\ pc = "exit" <=> status # -1
  /\ pc = "exit" =>
       /\ (\/ Len(argv) < 2
           \/ kind = "missing"
           \/ (kind = "file" /\ LacksRequired(header))
           \/ HasMessage("err_exception")) => status = 1
       /\ status = 0 =>
            /\ Len(argv) >= 2
            /\ kind = "file"
            /\ ~LacksRequired(header)
            /\ ~HasMessage("err_exception")
            /\ HasMessage("done")
            /\ outFile.exists
            /\ outFile.complete
            /\ outFile.body = sql_output

\* C9: every run ends, with status 0 after import.sql has been written and
\* closed or with status 1; the status is 1 when no argument is given, the
\* input file is missing, required columns are missing or an exception was
\* raised while reading, and 0 only when none of these happened.
C9_ExitPaths == [](C9_Statuses) /\ <>(pc = "exit")

\* The program has exited with status 0 after converting a record.
C9_Witness ==
  /\ pc = "exit"
  /\ status = 0
  /\ Len(Records) >= 1

FairSpec == Spec /\ WF_vars(Next)

(***************************************************************************)
(* C10                                                                     *)
(***************************************************************************)
\* C10: when a row supplies a temperature_score, the text in the
\* temperature_score position of its statement is that value, symbol for
\* symbol, unquoted and unescaped; the value draws no warning and the row
\* gets its statement like any other.
C10_ScoreRaw ==
  pc = "loop" =>
    /\ Len(sql_statements) = Len(Records)
    /\ \A j \in 1..Len(stdout) :
         stdout[j].kind \in {"banner", "converting", "warn_stage",
                             "warn_temperature_level"}
    /\ \A i \in 1..Len(sql_statements) :
         /\ i <= Len(Records)
         /\ LET p == ParseSql(sql_statements[i])
                rec == Rec(i)
            IN  /\ p.ok
                /\ Supplied(rec, "temperature_score") =>
                     p.temperature_score = rec["temperature_score"]

\* A row that supplies a temperature_score that is no number has got its
\* statement.
C10_Witness ==
  \E i \in 1..Len(sql_statements) :
    /\ i <= Len(Records)
    /\ Supplied(Rec(i), "temperature_score")
    /\ HasQuote(Rec(i)["temperature_score"])

====
